---- MODULE Spec2Model ----
(***************************************************************************)
(* Model of the session coordinator of qianlnk/werewolf (package services):*)
(* GameState, StateMachine, GameController, SkillManager, RoomManager and  *)
(* GameManager.  One action per method that a client goroutine, the        *)
(* transport handler or the phase timer invokes.  A player's ID is its     *)
(* seat number (JoinRoom keeps IDs unique); the empty ID "" is NoTarget.   *)
(***************************************************************************)
EXTENDS Integers, Sequences, FiniteSets, TLC

\* ---------------------------------------------------------------- bounds
RoomMaxPlayers == 3     \* MaxPlayers given to CreateRoom
MaxRound == 2           \* rounds explored
MaxActions == 2         \* length of the action log explored
MaxShift == 1           \* outcomes of rand.Shuffle explored (rotations)
MaxSkillShift == 3      \* outcomes of rand.Shuffle explored for the skill manager
MaxRoster == 3          \* roster length of the states checkGameEnd is applied to

\* ------------------------------------------------------ program constants
MinRoster == 6          \* GameController.StartGame pads the roster to 6
PhaseTime == 120        \* time budget of a phase

NoTarget == 0           \* the empty ID ""
UnknownID == 99         \* a non-empty ID that no player of the room has

PhaseNight == "night"
PhaseDay == "day"
PhaseVote == "vote"

GameOngoing == "ongoing"
WerewolfWin == "werewolf_win"
VillagerWin == "villager_win"
LoversWin == "lovers_win"
WhiteWolfWin == "white_wolf_win"
Wins == {WerewolfWin, VillagerWin, LoversWin, WhiteWolfWin}

\* error values (errors.New messages, rendered in ASCII)
NoErr == "nil"
ErrGameNotStarted == "game not started"
ErrGameInProgress == "game in progress"
ErrInvalidAction == "invalid game action"
ErrPhaseIncomplete == "phase has not completed all required actions"
ErrNotEnoughPlayers == "not enough players"
ErrInvalidActionMsg == "invalid action"
ErrInvalidTarget == "invalid target player"
MsgLoversWin == "lovers win: only the lovers are alive"
MsgWhiteWolfWin == "white wolf win: the white wolf is the last one"
MsgVillagerWin == "villagers win: all werewolves are eliminated"
MsgWerewolfWin == "werewolves win: werewolves equal or outnumber villagers"
EndMsgs == {MsgLoversWin, MsgWhiteWolfWin, MsgVillagerWin, MsgWerewolfWin}

Roles == {"werewolf", "seer", "witch", "villager", "hunter", "guard",
          "cupid", "thief", "whitewolf"}
Modes == {"classic", "standard", "extended"}
RoomModes == {"classic", "extended"}     \* modes given to CreateRoom
ActionTypes == {"kill", "check", "save", "poison", "protect", "shoot",
                "vote", "discuss"}

VARIABLES
  game,      \* the GameState shared by the controller, its state machine and skill manager
  status,    \* StateMachine.status of the controller's state machine
  mutex,     \* GameController.mutex: "free", or "held" by a goroutine that never releases it
  timer,     \* GameController.timer: "nil" or "live"
  gmGame     \* the GameState GameManager.games holds for the room, or NoGame

vars == <<game, status, mutex, timer, gmGame>>

NoGame == [IsStarted |-> FALSE, Players |-> <<>>, Phase |-> "", Round |-> 0,
           Actions |-> <<>>, TimeLeft |-> 0, Skills |-> <<>>, Mode |-> "",
           MinPlayers |-> 0]

\* ------------------------------------------------------------ models.Player
NewPlayer(type) == [Type |-> type, Role |-> "", Alive |-> FALSE, IsLover |-> FALSE]

IsWolf(role) == role \in {"werewolf", "whitewolf"}

\* ------------------------------------------------------------ StateMachine
hasActionOfType(g, playerID, actionType) ==
  \E i \in 1..Len(g.Actions) :
    g.Actions[i].PlayerID = playerID /\ g.Actions[i].Type = actionType

checkNightActionsComplete(g) ==
  \A i \in 1..Len(g.Players) :
    g.Players[i].Alive =>
      CASE IsWolf(g.Players[i].Role) -> hasActionOfType(g, i, "kill")
        [] g.Players[i].Role = "seer" -> hasActionOfType(g, i, "check")
        [] g.Players[i].Role = "guard" -> hasActionOfType(g, i, "protect")
        [] OTHER -> TRUE

checkVoteComplete(g) ==
  LET alive == {i \in 1..Len(g.Players) : g.Players[i].Alive}
      voted == {i \in alive : hasActionOfType(g, i, "vote")}
  IN Cardinality(voted) = Cardinality(alive)

isPhaseComplete(g) ==
  CASE g.Phase = PhaseNight -> checkNightActionsComplete(g)
    [] g.Phase = PhaseDay -> g.TimeLeft <= 0
    [] g.Phase = PhaseVote -> checkVoteComplete(g)
    [] OTHER -> FALSE

\* the loops of processActionResult set the flag of the player whose ID matches
SetAlive(g, id, b) ==
  IF id \in 1..Len(g.Players) THEN [g EXCEPT !.Players[id].Alive = b] ELSE g

processActionResult(g, action) ==
  CASE action.Type = "kill" -> SetAlive(g, action.TargetID, FALSE)
    [] action.Type = "save" -> SetAlive(g, action.TargetID, TRUE)
    [] action.Type = "poison" -> SetAlive(g, action.TargetID, FALSE)
    [] action.Type = "vote" -> SetAlive(g, action.TargetID, FALSE)
    [] OTHER -> g

\* one pass over the log applying the actions whose type is in kinds
RECURSIVE ApplyActions(_, _, _)
ApplyActions(g, acts, kinds) ==
  IF acts = <<>> THEN g
  ELSE ApplyActions(IF Head(acts).Type \in kinds
                      THEN processActionResult(g, Head(acts)) ELSE g,
                    Tail(acts), kinds)

processNightResults(g) ==
  [ApplyActions(ApplyActions(g, g.Actions, {"kill"}), g.Actions, {"save", "poison"})
     EXCEPT !.Actions = <<>>]

VoteCount(g, t) ==
  Cardinality({i \in 1..Len(g.Actions) :
                 g.Actions[i].Type = "vote" /\ g.Actions[i].TargetID = t})

VoteTargets(g) ==
  {g.Actions[i].TargetID : i \in {j \in 1..Len(g.Actions) : g.Actions[j].Type = "vote"}}

\* The loop over the votes map keeps the first key, in map iteration order,
\* whose count is the maximum; Go leaves that order unspecified, so any key
\* with the maximum count can be the result.  No votes: the empty ID.
EliminatedIDs(g) ==
  IF VoteTargets(g) = {} THEN {NoTarget}
  ELSE {t \in VoteTargets(g) :
          \A u \in VoteTargets(g) : VoteCount(g, u) <= VoteCount(g, t)}

processVoteResults(g, eliminatedID) ==
  [(IF eliminatedID # NoTarget
      THEN processActionResult(g, [Type |-> "vote", PlayerID |-> NoTarget,
                                   TargetID |-> eliminatedID])
      ELSE g)
     EXCEPT !.Actions = <<>>]

\* the counting loop of checkGameEnd, one player at a time
RECURSIVE CountPlayers(_, _, _)
CountPlayers(players, i, c) ==
  IF i > Len(players) THEN c
  ELSE IF ~players[i].Alive THEN CountPlayers(players, i + 1, c)
  ELSE LET p == players[i]
           c1 == IF p.IsLover
                   THEN [c EXCEPT !.loversAlive = @ + 1] ELSE c
           c2 == CASE p.Role = "whitewolf" ->
                        [c1 EXCEPT !.whiteWolfCount = @ + 1, !.werewolfCount = @ + 1]
                   [] p.Role = "werewolf" -> [c1 EXCEPT !.werewolfCount = @ + 1]
                   [] OTHER -> [c1 EXCEPT !.villagerCount = @ + 1]
       IN CountPlayers(players, i + 1, c2)

\* checkGameEnd with the regular conditions tested before the special ones
checkGameEndRegularFirst(g) ==
  LET c == CountPlayers(g.Players, 1,
             [werewolfCount |-> 0, villagerCount |-> 0, whiteWolfCount |-> 0,
              loversAlive |-> 0])
  IN IF c.werewolfCount = 0
       THEN [status |-> VillagerWin, err |-> MsgVillagerWin]
     ELSE IF c.werewolfCount >= c.villagerCount
       THEN [status |-> WerewolfWin, err |-> MsgWerewolfWin]
     ELSE IF c.loversAlive = 2 /\ c.loversAlive = c.villagerCount + c.werewolfCount
       THEN [status |-> LoversWin, err |-> MsgLoversWin]
     ELSE IF c.whiteWolfCount = 1 /\ c.werewolfCount = 1 /\ c.villagerCount = 0
       THEN [status |-> WhiteWolfWin, err |-> MsgWhiteWolfWin]
     ELSE [status |-> GameOngoing, err |-> NoErr]

checkGameEnd(g) ==
  LET c == CountPlayers(g.Players, 1,
             [werewolfCount |-> 0, villagerCount |-> 0, whiteWolfCount |-> 0,
              loversAlive |-> 0])
  IN IF c.loversAlive = 2 /\ c.loversAlive = c.villagerCount + c.werewolfCount
       THEN [status |-> LoversWin, err |-> MsgLoversWin]
     ELSE IF c.whiteWolfCount = 1 /\ c.werewolfCount = 1 /\ c.villagerCount = 0
       THEN [status |-> WhiteWolfWin, err |-> MsgWhiteWolfWin]
     ELSE IF c.werewolfCount = 0
       THEN [status |-> VillagerWin, err |-> MsgVillagerWin]
     ELSE IF c.werewolfCount >= c.villagerCount
       THEN [status |-> WerewolfWin, err |-> MsgWerewolfWin]
     ELSE [status |-> GameOngoing, err |-> NoErr]

\* the phase switch with the night leading straight to the vote
NextPhaseOfSkipsDay(g, eliminatedID) ==
  CASE g.Phase = PhaseNight -> [processNightResults(g) EXCEPT !.Phase = PhaseVote]
    [] g.Phase = PhaseDay -> [g EXCEPT !.Phase = PhaseVote]
    [] g.Phase = PhaseVote ->
         [processVoteResults(g, eliminatedID)
            EXCEPT !.Phase = PhaseNight, !.Round = @ + 1]
    [] OTHER -> g

\* the phase switch of TransitionPhase; eliminatedID is the outcome of the vote loop
NextPhaseOf(g, eliminatedID) ==
  CASE g.Phase = PhaseNight -> [processNightResults(g) EXCEPT !.Phase = PhaseDay]
    [] g.Phase = PhaseDay -> [g EXCEPT !.Phase = PhaseVote]
    [] g.Phase = PhaseVote ->
         [processVoteResults(g, eliminatedID)
            EXCEPT !.Phase = PhaseNight, !.Round = @ + 1]
    [] OTHER -> g

\* TransitionPhase without the test of isPhaseComplete
TransitionPhaseAtOnce(g, st) ==
  IF ~g.IsStarted THEN {[game |-> g, status |-> st, err |-> ErrGameNotStarted]}
  ELSE {LET g2 == [NextPhaseOf(g, e) EXCEPT !.TimeLeft = PhaseTime]
            r == checkGameEnd(g2)
        IN [game |-> g2, status |-> r.status, err |-> r.err]
        : e \in (IF g.Phase = PhaseVote THEN EliminatedIDs(g) ELSE {NoTarget})}

\* TransitionPhase on a state machine over g whose status is st:
\* the set of its possible outcomes
TransitionPhase(g, st) ==
  IF ~g.IsStarted THEN {[game |-> g, status |-> st, err |-> ErrGameNotStarted]}
  ELSE IF ~isPhaseComplete(g)
    THEN {[game |-> g, status |-> st, err |-> ErrPhaseIncomplete]}
  ELSE {LET g2 == [NextPhaseOf(g, e) EXCEPT !.TimeLeft = PhaseTime]
            r == checkGameEnd(g2)
        IN [game |-> g2, status |-> r.status, err |-> r.err]
        : e \in (IF g.Phase = PhaseVote THEN EliminatedIDs(g) ELSE {NoTarget})}

\* ------------------------------------------------------------ game rules (room.go)
BaseRoles(mode) ==
  CASE mode = "classic" -> <<"werewolf", "werewolf", "seer", "witch">>
    [] mode = "standard" -> <<"werewolf", "werewolf", "seer", "witch", "hunter", "guard">>
    [] mode = "extended" -> <<"werewolf", "whitewolf", "seer", "witch", "hunter",
                              "guard", "cupid">>
    [] OTHER -> <<>>

generateRoles(playerCount, mode) ==
  LET villagerCount == playerCount - Len(BaseRoles(mode))
  IN IF villagerCount > 0
       THEN BaseRoles(mode) \o [i \in 1..villagerCount |-> "villager"]
       ELSE BaseRoles(mode)

\* rand.Shuffle: the permutation is an input; the model draws rotations by k
Shuffle(roles, k) ==
  [i \in 1..Len(roles) |-> roles[((i - 1 + k) % Len(roles)) + 1]]

assignRoles(g, k) ==
  LET roles == Shuffle(generateRoles(Len(g.Players), g.Mode), k)
  IN [g EXCEPT !.Players = [i \in 1..Len(g.Players) |->
                              [g.Players[i] EXCEPT !.Role = roles[i], !.Alive = TRUE]]]

\* isValidAction with a night switch that lets every living role kill
isValidActionAnyKiller(g, action) ==
  /\ action.PlayerID \in 1..Len(g.Players)
  /\ g.Players[action.PlayerID].Alive
  /\ LET role == g.Players[action.PlayerID].Role
     IN CASE g.Phase = PhaseNight ->
               (CASE action.Type = "kill" -> TRUE
                  [] action.Type = "check" -> role = "seer"
                  [] action.Type \in {"save", "poison"} -> role = "witch"
                  [] action.Type = "protect" -> role = "guard"
                  [] OTHER -> FALSE)
          [] g.Phase = PhaseDay -> action.Type = "discuss"
          [] g.Phase = PhaseVote -> action.Type = "vote"
          [] OTHER -> FALSE

\* isValidAction without the test of the actor's Alive flag
isValidActionOfTheDead(g, action) ==
  LET role == IF action.PlayerID \in 1..Len(g.Players)
                THEN g.Players[action.PlayerID].Role ELSE ""
  IN CASE g.Phase = PhaseNight ->
            (CASE action.Type = "kill" -> IsWolf(role)
               [] action.Type = "check" -> role = "seer"
               [] action.Type \in {"save", "poison"} -> role = "witch"
               [] action.Type = "protect" -> role = "guard"
               [] OTHER -> FALSE)
       [] g.Phase = PhaseDay -> action.Type = "discuss"
       [] g.Phase = PhaseVote -> action.Type = "vote"
       [] OTHER -> FALSE

isValidAction(g, action) ==
  /\ action.PlayerID \in 1..Len(g.Players)
  /\ g.Players[action.PlayerID].Alive
  /\ LET role == g.Players[action.PlayerID].Role
     IN CASE g.Phase = PhaseNight ->
               (CASE action.Type = "kill" -> IsWolf(role)
                  [] action.Type = "check" -> role = "seer"
                  [] action.Type \in {"save", "poison"} -> role = "witch"
                  [] action.Type = "protect" -> role = "guard"
                  [] OTHER -> FALSE)
          [] g.Phase = PhaseDay -> action.Type = "discuss"
          [] g.Phase = PhaseVote -> action.Type = "vote"
          [] OTHER -> FALSE

checkAndUpdatePhase(g) ==
  [(CASE g.Phase = PhaseNight -> [g EXCEPT !.Phase = PhaseDay]
      [] g.Phase = PhaseDay -> [g EXCEPT !.Phase = PhaseVote]
      [] g.Phase = PhaseVote -> [g EXCEPT !.Phase = PhaseNight, !.Round = @ + 1]
      [] OTHER -> g)
     EXCEPT !.TimeLeft = PhaseTime]

\* ------------------------------------------------------------ GameState
NewGameState(mode) ==
  [IsStarted |-> FALSE, Players |-> <<>>, Phase |-> PhaseNight, Round |-> 1,
   Actions |-> <<>>, TimeLeft |-> PhaseTime, Skills |-> <<>>, Mode |-> mode,
   MinPlayers |-> 1]

FreshWitchSkills ==
  [SavePotion |-> [Used |-> FALSE, Target |-> NoTarget],
   PoisonPotion |-> [Used |-> FALSE, Target |-> NoTarget]]

initializeSkills(g) ==
  LET witches == {i \in 1..Len(g.Players) : g.Players[i].Role = "witch"}
  IN [g EXCEPT !.Skills = [i \in (DOMAIN g.Skills) \cup witches |->
                             IF i \in witches THEN FreshWitchSkills ELSE g.Skills[i]]]

\* GameState.StartGame; k is the outcome of the shuffle
GameStateStartGame(g, k) ==
  IF Len(g.Players) < g.MinPlayers
    THEN [game |-> g, err |-> ErrNotEnoughPlayers]
    ELSE [game |-> [initializeSkills(assignRoles(g, k))
                      EXCEPT !.Phase = PhaseNight, !.Round = 1, !.TimeLeft = PhaseTime,
                             !.IsStarted = TRUE, !.Actions = <<>>],
          err |-> NoErr]

\* the target loop of AddAction without the rule that spares the wolves
TargetValidWolfOnWolf(g, action) ==
  /\ action.TargetID \in 1..Len(g.Players)
  /\ g.Players[action.TargetID].Alive
  /\ g.Phase \in {PhaseNight, PhaseVote}

\* the target loop of AddAction without the test of the target's Alive flag
TargetValidOfTheDead(g, action) ==
  /\ action.TargetID \in 1..Len(g.Players)
  /\ CASE g.Phase = PhaseNight ->
            (action.Type = "kill" => ~IsWolf(g.Players[action.TargetID].Role))
       [] g.Phase = PhaseVote -> TRUE
       [] OTHER -> FALSE

\* the target loop of AddAction with day among the phases that take a target
TargetValidByDay(g, action) ==
  /\ action.TargetID \in 1..Len(g.Players)
  /\ g.Players[action.TargetID].Alive
  /\ CASE g.Phase = PhaseNight ->
            (action.Type = "kill" => ~IsWolf(g.Players[action.TargetID].Role))
       [] g.Phase \in {PhaseDay, PhaseVote} -> TRUE
       [] OTHER -> FALSE

\* the target loop of AddAction: the target is a living player the phase allows
TargetValid(g, action) ==
  /\ action.TargetID \in 1..Len(g.Players)
  /\ g.Players[action.TargetID].Alive
  /\ CASE g.Phase = PhaseNight ->
            (action.Type = "kill" => ~IsWolf(g.Players[action.TargetID].Role))
       [] g.Phase = PhaseVote -> TRUE
       [] OTHER -> FALSE

\* AddAction with the append moved in front of the target loop
AddActionAppendsFirst(g, action) ==
  IF ~g.IsStarted THEN [game |-> g, err |-> ErrGameNotStarted]
  ELSE IF ~isValidAction(g, action) THEN [game |-> g, err |-> ErrInvalidActionMsg]
  ELSE [game |-> [g EXCEPT !.Actions = Append(@, action)],
        err |-> IF action.TargetID # NoTarget /\ ~TargetValid(g, action)
                  THEN ErrInvalidTarget ELSE NoErr]

\* AddAction recording the action a second time, as GameManager.ProcessAction does
AddActionAppendsTwice(g, action) ==
  IF ~g.IsStarted THEN [game |-> g, err |-> ErrGameNotStarted]
  ELSE IF ~isValidAction(g, action) THEN [game |-> g, err |-> ErrInvalidActionMsg]
  ELSE IF action.TargetID # NoTarget /\ ~TargetValid(g, action)
    THEN [game |-> g, err |-> ErrInvalidTarget]
  ELSE [game |-> [g EXCEPT !.Actions = Append(Append(@, action), action)], err |-> NoErr]

AddAction(g, action) ==
  IF ~g.IsStarted THEN [game |-> g, err |-> ErrGameNotStarted]
  ELSE IF ~isValidAction(g, action) THEN [game |-> g, err |-> ErrInvalidActionMsg]
  ELSE IF action.TargetID # NoTarget /\ ~TargetValid(g, action)
    THEN [game |-> g, err |-> ErrInvalidTarget]
  ELSE [game |-> [g EXCEPT !.Actions = Append(@, action)], err |-> NoErr]

\* ------------------------------------------------------------ SkillManager
ErrNotSeer == "not the seer"
ErrNotWitch == "not the witch"
ErrNotHunter == "not the hunter"
ErrNotGuard == "not the guard"
ErrNoSuchTarget == "target player does not exist"
ErrSaveUsed == "save potion already used"
ErrPoisonUsed == "poison already used"
ErrInvalidSkill == "invalid skill type"

\* findPlayer: the player with that ID exists
findPlayer(g, playerID) == playerID \in 1..Len(g.Players)

\* getWitchSkills returns a new WitchSkills value on every call
getWitchSkills(g, witchID) == FreshWitchSkills

AppendAction(g, type, playerID, targetID) ==
  [g EXCEPT !.Actions = Append(@, [Type |-> type, PlayerID |-> playerID,
                                   TargetID |-> targetID])]

\* UseSeerSkill without the test of the caller's role
UseSeerSkillByAnyone(g, seerID, targetID) ==
  IF ~findPlayer(g, seerID) THEN [game |-> g, err |-> ErrNotSeer]
  ELSE IF ~findPlayer(g, targetID) THEN [game |-> g, err |-> ErrNoSuchTarget]
  ELSE [game |-> AppendAction(g, "check", seerID, targetID), err |-> NoErr]

UseSeerSkill(g, seerID, targetID) ==
  IF ~findPlayer(g, seerID) \/ g.Players[seerID].Role # "seer"
    THEN [game |-> g, err |-> ErrNotSeer]
  ELSE IF ~findPlayer(g, targetID) THEN [game |-> g, err |-> ErrNoSuchTarget]
  ELSE [game |-> AppendAction(g, "check", seerID, targetID), err |-> NoErr]

UseWitchSkill(g, witchID, targetID, skillType) ==
  IF ~findPlayer(g, witchID) \/ g.Players[witchID].Role # "witch"
    THEN [game |-> g, err |-> ErrNotWitch]
  ELSE IF ~findPlayer(g, targetID) THEN [game |-> g, err |-> ErrNoSuchTarget]
  ELSE LET skills == getWitchSkills(g, witchID)
       IN CASE skillType = "save" ->
                 IF skills.SavePotion.Used THEN [game |-> g, err |-> ErrSaveUsed]
                 ELSE [game |-> AppendAction(g, skillType, witchID, targetID),
                       err |-> NoErr]
            [] skillType = "poison" ->
                 IF skills.PoisonPotion.Used THEN [game |-> g, err |-> ErrPoisonUsed]
                 ELSE [game |-> AppendAction(g, skillType, witchID, targetID),
                       err |-> NoErr]
            [] OTHER -> [game |-> g, err |-> ErrInvalidSkill]

UseHunterSkill(g, hunterID, targetID) ==
  IF ~findPlayer(g, hunterID) \/ g.Players[hunterID].Role # "hunter"
    THEN [game |-> g, err |-> ErrNotHunter]
  ELSE IF ~findPlayer(g, targetID) THEN [game |-> g, err |-> ErrNoSuchTarget]
  ELSE [game |-> SetAlive(AppendAction(g, "shoot", hunterID, targetID), targetID, FALSE),
        err |-> NoErr]

UseGuardSkill(g, guardID, targetID) ==
  IF ~findPlayer(g, guardID) \/ g.Players[guardID].Role # "guard"
    THEN [game |-> g, err |-> ErrNotGuard]
  ELSE IF ~findPlayer(g, targetID) THEN [game |-> g, err |-> ErrNoSuchTarget]
  ELSE [game |-> AppendAction(g, "protect", guardID, targetID), err |-> NoErr]

\* ------------------------------------------------------------ AIPlayer
\* NewAIPlayer builds a new AIPlayer for every decision: its personality is
\* drawn at random and its KnownPlayers map is empty.
Personalities == {"aggressive", "cautious", "strategic", "random"}

SeqToSet(q) == {q[i] : i \in 1..Len(q)}

\* the first element of a seat set, or the empty ID
FirstOf(S) == IF S = {} THEN NoTarget ELSE CHOOSE i \in S : \A j \in S : i <= j

\* rand.Intn over potentialTargets, or the given fallback when it is empty
PickOf(S, fallback) == IF S = {} THEN {fallback} ELSE S

isActive(g, playerID) ==
  Cardinality({i \in 1..Len(g.Actions) :
                 g.Actions[i].Type = "discuss" /\ g.Actions[i].PlayerID = playerID})
    >= g.Round * 2

\* with no known roles the score only counts inactivity
isSuspicious(g, playerID) ==
  (IF ~isActive(g, playerID) THEN 1 ELSE 0) >= 2

isPopularVoteTarget(g, playerID) ==
  VoteCount(g, playerID)
    >= Cardinality({i \in 1..Len(g.Players) : g.Players[i].Alive}) \div 3

AliveOthers(g, id) == {i \in 1..Len(g.Players) : g.Players[i].Alive /\ i # id}

selectKillTarget(g, id, personality) ==
  LET cand == {i \in 1..Len(g.Players) :
                 g.Players[i].Alive /\ ~IsWolf(g.Players[i].Role)}
  IN IF personality \in {"cautious", "random"}
       THEN PickOf(cand, NoTarget) ELSE {FirstOf(cand)}

selectCheckTarget(g, id, personality) ==
  CASE personality = "aggressive" ->
         {FirstOf({i \in AliveOthers(g, id) : isSuspicious(g, i)})}
    [] personality = "cautious" ->
         PickOf({i \in AliveOthers(g, id) : ~isActive(g, i)}, NoTarget)
    [] OTHER -> PickOf(AliveOthers(g, id), NoTarget)

selectPoisonTarget(g, id) ==
  PickOf({i \in AliveOthers(g, id) : isSuspicious(g, i)}, NoTarget)

selectProtectTarget(g, id, personality) ==
  IF personality = "strategic" THEN {NoTarget}
  ELSE PickOf(AliveOthers(g, id), NoTarget)

selectVoteTarget(g, id, personality) ==
  CASE personality = "aggressive" ->
         {FirstOf({i \in AliveOthers(g, id) : isSuspicious(g, i)})}
    [] personality = "cautious" ->
         {FirstOf({i \in AliveOthers(g, id) : isPopularVoteTarget(g, i)})}
    [] OTHER -> PickOf(AliveOthers(g, id), NoTarget)

hasSavePotion(g, id) == id \in DOMAIN g.Skills /\ ~g.Skills[id].SavePotion.Used

hasPoison(g, id) == id \in DOMAIN g.Skills /\ ~g.Skills[id].PoisonPotion.Used

getLastKilledPlayer(g) ==
  LET kills == {i \in 1..Len(g.Actions) : g.Actions[i].Type = "kill"}
  IN IF kills = {} THEN NoTarget ELSE g.Actions[FirstOf(kills)].TargetID

EmptyAction(id) == [Type |-> "", PlayerID |-> id, TargetID |-> NoTarget]

\* isImportantPlayer needs a known role, so only the random personality and
\* the strategic poison branch can produce a potion action
decideWitchAction(g, id, personality) ==
  LET killedPlayer == getLastKilledPlayer(g)
      poison == {[Type |-> "poison", PlayerID |-> id, TargetID |-> t] :
                   t \in selectPoisonTarget(g, id)}
      save == [Type |-> "save", PlayerID |-> id, TargetID |-> killedPlayer]
      suspects == {i \in 1..Len(g.Players) : g.Players[i].Alive /\ isSuspicious(g, i)}
  IN CASE personality = "aggressive" ->
            IF hasPoison(g, id) /\ isSuspicious(g, killedPlayer) THEN poison
            ELSE {EmptyAction(id)}
       [] personality = "cautious" -> {EmptyAction(id)}
       [] personality = "strategic" ->
            IF hasPoison(g, id) /\ g.Round > 2 /\ suspects # {} THEN poison
            ELSE {EmptyAction(id)}
       [] OTHER ->
            (IF hasSavePotion(g, id) /\ killedPlayer # NoTarget THEN {save} ELSE {})
              \cup (IF hasPoison(g, id) THEN poison ELSE {EmptyAction(id)})

decideNightAction(g, id, personality) ==
  LET role == g.Players[id].Role
  IN CASE IsWolf(role) ->
            {[Type |-> "kill", PlayerID |-> id, TargetID |-> t] :
               t \in selectKillTarget(g, id, personality)}
       [] role = "seer" ->
            {[Type |-> "check", PlayerID |-> id, TargetID |-> t] :
               t \in selectCheckTarget(g, id, personality)}
       [] role = "witch" -> decideWitchAction(g, id, personality)
       [] role = "guard" ->
            {[Type |-> "protect", PlayerID |-> id, TargetID |-> t] :
               t \in selectProtectTarget(g, id, personality)}
       [] OTHER -> {EmptyAction(id)}

\* the actions DecideAction can return for the synthetic player id
DecideAction(g, id) ==
  UNION {CASE g.Phase = PhaseNight -> decideNightAction(g, id, p)
           [] g.Phase = PhaseDay ->
                {[Type |-> "discuss", PlayerID |-> id, TargetID |-> NoTarget]}
           [] g.Phase = PhaseVote ->
                {[Type |-> "vote", PlayerID |-> id, TargetID |-> t] :
                   t \in selectVoteTarget(g, id, p)}
           [] OTHER -> {[Type |-> "", PlayerID |-> NoTarget, TargetID |-> NoTarget]}
         : p \in Personalities}

\* ------------------------------------------------------------ GameController
\* the receiver of BroadcastToRoom; SendToPlayer names a seat
ToRoom == 0

\* a message handed to the WebSocketManager: locked tells whether the sending
\* goroutine holds gc.mutex at the call
Message(type, to, locked) ==
  [type |-> type, to |-> to, locked |-> locked, phase |-> "", round |-> 0,
   time_left |-> 0, is_started |-> FALSE, players |-> <<>>, role |-> "",
   result |-> ""]

\* broadcastGameState, called by a goroutine that holds gc.mutex
broadcastGameState(g) ==
  [Message("game_state", ToRoom, TRUE)
     EXCEPT !.phase = g.Phase, !.round = g.Round, !.time_left = g.TimeLeft,
            !.players = g.Players, !.is_started = g.IsStarted]

\* handleGameEnd's broadcast
GameEndMessage(g, result) ==
  [Message("game_end", ToRoom, TRUE) EXCEPT !.result = result, !.players = g.Players]

\* the messages StartGame sends under its deferred Unlock
RoomUpdateMessage(players) ==
  [Message("room_update", ToRoom, TRUE) EXCEPT !.players = players]

RoleAssignedMessages(g) ==
  {[Message("role_assigned", i, TRUE) EXCEPT !.role = g.Players[i].Role]
     : i \in 1..Len(g.Players)}

GameStartedMessage == Message("game_started", ToRoom, TRUE)

\* the kinds of the messages of a set
Kinds(msgs) == {m.type : m \in msgs}

Blocked == "never returns"    \* the call is still waiting for gc.mutex

StopTimer(tm) == IF tm = "nil" THEN "nil" ELSE "stopped"

\* startPhaseTimer called by a goroutine that holds gc.mutex: processAIActions
\* returns at once on a game that is not started, and otherwise calls
\* gc.mutex.Lock(), which the caller itself holds
startPhaseTimer(g, tm) ==
  IF g.IsStarted THEN [blocked |-> TRUE, timer |-> StopTimer(tm)]
  ELSE [blocked |-> FALSE, timer |-> "live"]

\* endCurrentPhase called by a goroutine that holds gc.mutex: its outcomes
endCurrentPhase(g, st, tm) ==
  {IF o.err # NoErr
     THEN IF o.err \in {VillagerWin, WerewolfWin}
            THEN [game |-> o.game, status |-> o.status, err |-> NoErr,
                  sent |-> {GameEndMessage(o.game, o.err)}, mutex |-> "free",
                  timer |-> StopTimer(tm)]
            ELSE [game |-> o.game, status |-> o.status, err |-> o.err,
                  sent |-> {}, mutex |-> "free", timer |-> tm]
     ELSE LET t == startPhaseTimer(o.game, tm)
          IN IF t.blocked
               THEN [game |-> o.game, status |-> o.status, err |-> Blocked,
                     sent |-> {}, mutex |-> "held", timer |-> t.timer]
               ELSE [game |-> o.game, status |-> o.status, err |-> NoErr,
                     sent |-> {broadcastGameState(o.game)}, mutex |-> "free",
                     timer |-> t.timer]
   : o \in TransitionPhase(g, st)}

\* the tail of ProcessAction and processAIActions: end the phase when it is
\* complete, broadcast the state otherwise
FinishAction(g, st, tm) ==
  IF isPhaseComplete(g) THEN endCurrentPhase(g, st, tm)
  ELSE {[game |-> g, status |-> st, err |-> NoErr,
         sent |-> {broadcastGameState(g)}, mutex |-> "free", timer |-> tm]}

\* GameController.ProcessAction, entered with gc.mutex free: its outcomes
ControllerProcessAction(g, st, tm, action) ==
  IF action.TargetID \notin 1..Len(g.Players)
    THEN {[game |-> g, status |-> st, err |-> ErrInvalidTarget, sent |-> {},
           mutex |-> "free", timer |-> tm]}
  ELSE LET r == AddAction(g, action)
       IN IF r.err # NoErr
            THEN {[game |-> r.game, status |-> st, err |-> r.err, sent |-> {},
                   mutex |-> "free", timer |-> tm]}
            ELSE FinishAction(processActionResult(r.game, action), st, tm)

\* the loop of processAIActions from seat i on: the games it can leave, and
\* whether a rejected decision made it return early
RECURSIVE AILoop(_, _)
AILoop(g, i) ==
  IF i > Len(g.Players) THEN {[game |-> g, aborted |-> FALSE]}
  ELSE IF g.Players[i].Type = "ai" /\ g.Players[i].Alive
    THEN UNION {LET r == AddAction(g, a)
                IN IF r.err # NoErr THEN {[game |-> r.game, aborted |-> TRUE]}
                   ELSE AILoop(processActionResult(r.game, a), i + 1)
                : a \in DecideAction(g, i)}
    ELSE AILoop(g, i + 1)

\* processAIActions entered with gc.mutex free: its outcomes
processAIActions(g, st, tm) ==
  IF ~g.IsStarted
    THEN {[game |-> g, status |-> st, err |-> NoErr, sent |-> {},
           mutex |-> "free", timer |-> tm]}
  ELSE UNION {IF l.aborted
                THEN {[game |-> l.game, status |-> st, err |-> NoErr, sent |-> {},
                       mutex |-> "free", timer |-> tm]}
                ELSE {[o EXCEPT !.err = IF @ = Blocked THEN Blocked ELSE NoErr]
                        : o \in FinishAction(l.game, st, tm)}
              : l \in AILoop(g, 1)}

\* the padding of StartGame with the synthetic players put in front
PadRosterInFront(players) ==
  [i \in 1..(MinRoster - Len(players)) |->
     [Type |-> "ai", Role |-> "villager", Alive |-> TRUE, IsLover |-> FALSE]]
    \o players

\* the roster StartGame builds when fewer than 6 players have joined
PadRoster(players) ==
  players \o [i \in 1..(MinRoster - Len(players)) |->
                [Type |-> "ai", Role |-> "villager", Alive |-> TRUE, IsLover |-> FALSE]]

\* GameController.StartGame, entered with gc.mutex free; k is the shuffle
ControllerStartGame(g, st, tm, k) ==
  LET padded == Len(g.Players) < MinRoster
      g1 == [g EXCEPT !.Players = IF padded THEN PadRoster(@) ELSE @,
                      !.Mode = "classic", !.MinPlayers = MinRoster]
      r == GameStateStartGame(g1, k)
      t == startPhaseTimer(r.game, tm)
      msgs == IF padded THEN {RoomUpdateMessage(g1.Players)} ELSE {}
      started == RoleAssignedMessages(r.game) \cup {GameStartedMessage}
  IN IF r.err # NoErr
       THEN [game |-> r.game, status |-> st, err |-> r.err, sent |-> msgs,
             mutex |-> "free", timer |-> tm]
     ELSE IF t.blocked
       THEN [game |-> r.game, status |-> st, err |-> Blocked,
             sent |-> msgs \cup started,
             mutex |-> "held", timer |-> t.timer]
     ELSE [game |-> r.game, status |-> st, err |-> NoErr,
           sent |-> msgs \cup started \cup {broadcastGameState(r.game)},
           mutex |-> "free", timer |-> t.timer]

\* ------------------------------------------------------------ GameManager
GameManagerStartGame(gm, n) ==
  IF gm # NoGame THEN [game |-> gm, err |-> ErrGameInProgress]
  ELSE [game |-> assignRoles([NoGame EXCEPT !.Phase = PhaseNight, !.Round = 1,
                                !.Players = [i \in 1..n |-> NewPlayer("human")],
                                !.TimeLeft = PhaseTime, !.IsStarted = TRUE], 0),
        err |-> NoErr]

\* GameManager.ProcessAction: its outcomes
GameManagerProcessAction(gm, action) ==
  IF gm = NoGame \/ ~gm.IsStarted THEN {[game |-> gm, err |-> ErrGameNotStarted]}
  ELSE IF ~isValidAction(gm, action) THEN {[game |-> gm, err |-> ErrInvalidAction]}
  ELSE LET g1 == [gm EXCEPT !.Actions = Append(@, action)]
       IN {IF o.err # NoErr
             THEN [game |-> IF o.err \in {WerewolfWin, VillagerWin}
                              THEN [o.game EXCEPT !.IsStarted = FALSE] ELSE o.game,
                   err |-> o.err]
             ELSE [game |-> checkAndUpdatePhase(processActionResult(
                              [o.game EXCEPT !.Actions = Append(@, action)], action)),
                   err |-> NoErr]
           : o \in TransitionPhase(g1, GameOngoing)}

\* ------------------------------------------------------------ RoomManager
ErrRoomFull == "room is full"

\* JoinRoom of a player whose ID is not in the room: the request carries the
\* ID, the name and the type
RoomManagerJoinRoom(g, type) ==
  IF Len(g.Players) >= RoomMaxPlayers THEN [game |-> g, err |-> ErrRoomFull]
  ELSE [game |-> [g EXCEPT !.Players = Append(@, NewPlayer(type))], err |-> NoErr]

\* ------------------------------------------------------------ inputs
PlayerTypes == {"human", "ai"}
JoinTypes == {"human"}                      \* types of the players that join
Seconds == {0}                              \* arguments of UpdateTimeLeft
ActorIDs == 1..RoomMaxPlayers \cup {UnknownID}
TargetIDs == 0..RoomMaxPlayers \cup {UnknownID}
ActionsOf ==
  {[Type |-> t, PlayerID |-> p, TargetID |-> d] :
     t \in ActionTypes, p \in ActorIDs, d \in TargetIDs}

\* the guards that keep the explored part finite
Within(g) ==
  /\ g.Round <= MaxRound
  /\ Len(g.Actions) <= MaxActions

\* ------------------------------------------------------------ the state machine
\* A room as CreateRoom leaves it.  GameManager.games and the sessions of the
\* RoomManager share no state: the model explores a GameManager session only
\* for a room nobody has touched through the RoomManager, and the other way round.
Fresh == {NewGameState(m) : m \in RoomModes}

Init ==
  /\ game \in Fresh
  /\ status = ""
  /\ mutex = "free"
  /\ timer = "nil"
  /\ gmGame = NoGame

\* an operation of the controller, entered with gc.mutex free, with outcome o
Controller(o) ==
  /\ gmGame = NoGame
  /\ Within(o.game)
  /\ game' = o.game
  /\ status' = o.status
  /\ mutex' = o.mutex
  /\ timer' = o.timer
  /\ UNCHANGED gmGame

\* an operation on the GameState that does not take gc.mutex, with result r
Direct(r) ==
  /\ gmGame = NoGame
  /\ Within(r.game)
  /\ game' = r.game
  /\ UNCHANGED <<status, mutex, timer, gmGame>>

JoinRoom ==
  \E type \in JoinTypes : Direct(RoomManagerJoinRoom(game, type))

CtlStartGame ==
  /\ mutex = "free"
  /\ \E k \in 0..MaxShift : Controller(ControllerStartGame(game, status, timer, k))

CtlProcessAction ==
  /\ mutex = "free"
  /\ \E action \in ActionsOf :
       \E o \in ControllerProcessAction(game, status, timer, action) : Controller(o)

CtlProcessAIActions ==
  /\ mutex = "free"
  /\ \E o \in processAIActions(game, status, timer) : Controller(o)

HandlePhaseTimeout ==
  /\ mutex = "free"
  /\ \E o \in endCurrentPhase(game, status, timer) : Controller(o)

StartGame ==
  \E k \in 0..MaxShift : Direct(GameStateStartGame(game, k))

SubmitAction ==
  \E action \in ActionsOf : Direct(AddAction(game, action))

UpdateTimeLeft ==
  \E seconds \in Seconds :
    Direct([game |-> [game EXCEPT !.TimeLeft = seconds], err |-> NoErr])

CallTransitionPhase ==
  \E o \in TransitionPhase(game, status) :
    /\ gmGame = NoGame
    /\ Within(o.game)
    /\ game' = o.game
    /\ status' = o.status
    /\ UNCHANGED <<mutex, timer, gmGame>>

CallUseSeerSkill ==
  \E p \in ActorIDs, d \in TargetIDs : Direct(UseSeerSkill(game, p, d))

CallUseWitchSkill ==
  \E p \in ActorIDs, d \in TargetIDs, kind \in {"save", "poison", "shoot"} :
    Direct(UseWitchSkill(game, p, d, kind))

CallUseHunterSkill ==
  \E p \in ActorIDs, d \in TargetIDs : Direct(UseHunterSkill(game, p, d))

CallUseGuardSkill ==
  \E p \in ActorIDs, d \in TargetIDs : Direct(UseGuardSkill(game, p, d))

GmStartGame ==
  \E n \in 1..RoomMaxPlayers :
    /\ game \in Fresh
    /\ gmGame' = GameManagerStartGame(gmGame, n).game
    /\ UNCHANGED <<game, status, mutex, timer>>

GmProcessAction ==
  \E action \in ActionsOf :
    \E r \in GameManagerProcessAction(gmGame, action) :
      /\ game \in Fresh
      /\ Within(r.game)
      /\ gmGame' = r.game
      /\ UNCHANGED <<game, status, mutex, timer>>

Next ==
  \/ JoinRoom
  \/ CtlStartGame
  \/ CtlProcessAction
  \/ HandlePhaseTimeout
  \/ StartGame
  \/ SubmitAction
  \/ UpdateTimeLeft
  \/ CallTransitionPhase
  \/ GmStartGame
  \/ GmProcessAction

Spec == Init /\ [][Next]_vars

\* ------------------------------------------------- the SkillManager alone
\* The skill manager of a session whose actions all come through it
StartGameAnyRoles ==
  \E k \in 0..MaxSkillShift : Direct(GameStateStartGame(game, k))

NextSkill ==
  \/ JoinRoom
  \/ StartGameAnyRoles
  \/ CallUseSeerSkill
  \/ CallUseWitchSkill
  \/ CallUseHunterSkill
  \/ CallUseGuardSkill
  \/ CallTransitionPhase

SpecSkill == Init /\ [][NextSkill]_vars

\* ------------------------------------------------- checkGameEnd on any roster
EndRoles == {"werewolf", "whitewolf", "villager", "seer"}

Rosters ==
  UNION {[1..n -> [Type : {"human"}, Role : EndRoles, Alive : BOOLEAN,
                   IsLover : BOOLEAN]] : n \in 0..MaxRoster}

InitEnd ==
  /\ game \in {[NewGameState("extended") EXCEPT !.Players = ps, !.IsStarted = TRUE] :
                 ps \in Rosters}
  /\ status = ""
  /\ mutex = "free"
  /\ timer = "nil"
  /\ gmGame = NoGame

\* sm.checkGameEnd() on a state machine that has not judged the roster yet
CallCheckGameEnd ==
  /\ status = ""
  /\ status' = checkGameEnd(game).status
  /\ UNCHANGED <<game, mutex, timer, gmGame>>

NextEnd == CallCheckGameEnd

SpecEnd == InitEnd /\ [][NextEnd]_vars

\* ------------------------------------------------------------ properties
Successor(phase) ==
  CASE phase = PhaseNight -> PhaseDay
    [] phase = PhaseDay -> PhaseVote
    [] phase = PhaseVote -> PhaseNight
    [] OTHER -> phase

\* the phase stays, or moves one step along night -> day -> vote -> night
Along(p, q) == q = p \/ q = Successor(p)

\* the round stays, or grows by one while the phase goes from vote to night
RoundStep(g, h) ==
  \/ h.Round = g.Round
  \/ h.Round = g.Round + 1 /\ g.Phase = PhaseVote /\ h.Phase = PhaseNight

\* a start request, through the controller or on the GameState
StartStep == StartGame \/ CtlStartGame

\* every participant of the session keeps its alive flag in the step
AliveKept ==
  \A i \in 1..Len(game.Players) :
    i <= Len(game'.Players) /\ game'.Players[i].Alive = game.Players[i].Alive

\* C1: over any sequence of operations on a session, start requests included,
\* the round counter never decreases, and every change to it is an increase
\* by exactly 1 made in the step in which the phase goes from vote to night.
C1_RoundOnlyGrowsAtVoteEnd ==
  [][/\ RoundStep(game, game')
     /\ gmGame # NoGame => RoundStep(gmGame, gmGame')]_vars

\* C2: TransitionPhase, a timer expiry, the controller's ProcessAction, an
\* action submission and GameManager.ProcessAction, called in any reachable
\* state, leave the phase of the session where it is or move it one step along
\* night -> day, day -> vote, vote -> night.
C2_PhaseCycle ==
  /\ \A o \in TransitionPhase(game, status) : Along(game.Phase, o.game.Phase)
  /\ \A o \in endCurrentPhase(game, status, timer) : Along(game.Phase, o.game.Phase)
  /\ \A action \in ActionsOf :
       /\ \A o \in ControllerProcessAction(game, status, timer, action) :
            Along(game.Phase, o.game.Phase)
       /\ AddAction(game, action).game.Phase = game.Phase
       /\ \A r \in GameManagerProcessAction(gmGame, action) :
            Along(gmGame.Phase, r.game.Phase)

\* C2 witness: a session that went all the way round the cycle and on to the
\* next day.
C2_SecondDayReached == game.IsStarted /\ game.Round > 1 /\ game.Phase = PhaseDay

\* C3: a session started through the controller that has no winner yet can
\* still be driven by the phase timer: a timer is pending and gc.mutex is not
\* held by a call that never returns.  (Without this no timer expiry is ever
\* handled again, so the session never reaches a terminal state.)
C3_TimerKeepsDriving ==
  (game.IsStarted /\ game.MinPlayers = MinRoster /\ status \notin Wins)
    => (timer = "live" /\ mutex = "free")

\* C4: every phase-timer expiry the controller handles moves the session to
\* the next phase, whether or not the phase's completion condition holds.
C4_TimeoutAdvances ==
  (game.IsStarted /\ mutex = "free")
    => \A o \in endCurrentPhase(game, status, timer) :
         o.game.Phase = Successor(game.Phase)

\* the outcome the precedence rules give for a roster, counted on sets
Precedence(ps) ==
  LET living == {i \in 1..Len(ps) : ps[i].Alive}
      lovers == {i \in living : ps[i].IsLover}
      wolves == {i \in living : ps[i].Role \in {"werewolf", "whitewolf"}}
      village == living \ wolves
  IN IF Cardinality(lovers) = 2 /\ lovers = living THEN LoversWin
     ELSE IF /\ Cardinality(wolves) = 1
             /\ \A i \in wolves : ps[i].Role = "whitewolf"
             /\ village = {}
       THEN WhiteWolfWin
     ELSE IF wolves = {} THEN VillagerWin
     ELSE IF Cardinality(wolves) >= Cardinality(village) THEN WerewolfWin
     ELSE GameOngoing

\* C5: for every roster checkGameEnd yields, in this precedence, lovers win,
\* white wolf win, village win, wolf win (wolves >= village), else ongoing.
C5_WinPrecedence == status # "" => status = Precedence(game.Players)

\* C5 witness: checkGameEnd has judged a roster whose only two survivors are
\* lovers, one a wolf and one a villager, and gave the lovers the win.
C5_LoversBeatParity ==
  /\ status = LoversWin
  /\ \E i, j \in 1..Len(game.Players) :
       /\ {k \in 1..Len(game.Players) : game.Players[k].Alive} = {i, j}
       /\ game.Players[i].Role = "werewolf" /\ game.Players[i].IsLover
       /\ game.Players[j].Role = "villager" /\ game.Players[j].IsLover

\* checkGameEnd has declared a winner for the roster as it stands, and the
\* roster is not one a start request has just dealt (somebody has died)
WinnerDeclared ==
  /\ status \in Wins
  /\ status = checkGameEnd(game).status
  /\ \E i \in 1..Len(game.Players) : ~game.Players[i].Alive

\* C6: once checkGameEnd has declared a winner, no later operation other than
\* a start request changes the phase, the round or a participant's alive flag.
C6_InertOnceWon ==
  [][(WinnerDeclared /\ ~StartStep)
       => (game'.Phase = game.Phase /\ game'.Round = game.Round /\ AliveKept)]_vars

\* C7: whenever endCurrentPhase makes a phase transition, then if checkGameEnd
\* declared a winner the controller broadcasts game_end and leaves no timer
\* running, and otherwise it restarts the phase timer.
C7_EndOrRestart ==
  mutex = "free"
    => \A o \in endCurrentPhase(game, status, timer) :
         o.game.Phase # game.Phase
           => IF o.status \in Wins
                THEN "game_end" \in Kinds(o.sent) /\ o.timer # "live"
                ELSE o.timer = "live"

\* C8: once a UseWitchSkill call of a kind has succeeded for a witch (its
\* action is in the log), every later call of that kind for that witch returns
\* the already-used error and appends nothing.
C8_SecondUseRefused ==
  \A w \in 1..Len(game.Players) : \A d \in 1..Len(game.Players) :
    /\ hasActionOfType(game, w, "save")
         => UseWitchSkill(game, w, d, "save") = [game |-> game, err |-> ErrSaveUsed]
    /\ hasActionOfType(game, w, "poison")
         => UseWitchSkill(game, w, d, "poison") = [game |-> game, err |-> ErrPoisonUsed]

\* C9: once AddAction has accepted a save (a poison) of a witch, it rejects
\* every later save (poison) of that witch.
C9_SecondPotionRejected ==
  \A w \in 1..Len(game.Players) : \A kind \in {"save", "poison"} :
    hasActionOfType(game, w, kind)
      => \A d \in TargetIDs :
           AddAction(game, [Type |-> kind, PlayerID |-> w, TargetID |-> d]).err # NoErr

\* two or more living participants share the highest vote count of the log,
\* each voter having voted once
VoteTied(g) ==
  LET top == {t \in VoteTargets(g) :
                \A u \in VoteTargets(g) : VoteCount(g, u) <= VoteCount(g, t)}
  IN /\ Cardinality(top) >= 2
     /\ \A t \in top : t \in 1..Len(g.Players) /\ g.Players[t].Alive
     /\ \A i, j \in 1..Len(g.Actions) :
          g.Actions[i].PlayerID = g.Actions[j].PlayerID => i = j

\* C10: when TransitionPhase resolves a vote in which two or more targets
\* share the highest count, every alive flag is the same after the resolution
\* as before it.
C10_TieEliminatesNobody ==
  (game.IsStarted /\ game.Phase = PhaseVote /\ isPhaseComplete(game) /\ VoteTied(game))
    => \A o \in TransitionPhase(game, status) :
         \A i \in 1..Len(game.Players) :
           o.game.Players[i].Alive = game.Players[i].Alive

\* every participant of g has the same alive flag in h
SameAlive(g, h) ==
  \A i \in 1..Len(g.Players) : h.Players[i].Alive = g.Players[i].Alive

\* from g to h the participants of S are dead and nobody else's flag changed
OnlyFalls(g, h, S) ==
  \A i \in 1..Len(g.Players) :
    IF i \in S THEN ~h.Players[i].Alive
    ELSE h.Players[i].Alive = g.Players[i].Alive

\* the participant with strictly more votes in the log of g than every other
\* target, if there is one
VoteWinner(g) ==
  {t \in VoteTargets(g) \cap (1..Len(g.Players)) :
     \A u \in VoteTargets(g) \ {t} : VoteCount(g, u) < VoteCount(g, t)}

\* C11: in a vote phase nobody's alive flag changes while votes are being
\* accepted, and when the phase is resolved with one target holding strictly
\* more votes than every other, exactly that participant is eliminated.
C11_OnlyTheWinnerFalls ==
  (game.IsStarted /\ game.Phase = PhaseVote)
    => /\ (isPhaseComplete(game) /\ VoteWinner(game) # {})
            => \A o \in TransitionPhase(game, status) :
                 OnlyFalls(game, o.game, VoteWinner(game))
       /\ mutex = "free"
            => \A action \in ActionsOf :
                 \A o \in ControllerProcessAction(game, status, timer, action) :
                   LET logged == [game EXCEPT !.Actions = Append(@, action)]
                   IN IF o.game.Phase = PhaseVote THEN SameAlive(game, o.game)
                      ELSE VoteWinner(logged) # {}
                             => OnlyFalls(game, o.game, VoteWinner(logged))

\* C12: when the controller's ProcessAction accepts an action and the phase
\* goes on, the action has been appended to the log and no participant's
\* alive flag has changed.
C12_AcceptOnlyAppends ==
  mutex = "free"
    => \A action \in ActionsOf :
         \A o \in ControllerProcessAction(game, status, timer, action) :
           (o.err = NoErr /\ o.game.Phase = game.Phase /\ o.game.Round = game.Round)
             => /\ o.game.Actions = Append(game.Actions, action)
                /\ SameAlive(game, o.game)

\* the log of g holds a kill and a save that both name participant i
SavedFromKill(g, i) ==
  /\ \E a \in 1..Len(g.Actions) :
       g.Actions[a].Type = "kill" /\ g.Actions[a].TargetID = i
  /\ \E a \in 1..Len(g.Actions) :
       g.Actions[a].Type = "save" /\ g.Actions[a].TargetID = i

\* C13: in a started session the alive flag of a participant who holds a role
\* goes from false to true only in the step that resolves a night, and only
\* for a participant named by both a kill and a save of that night's log.
C13_RevivedOnlyBySave ==
  [][game.IsStarted
       => \A i \in 1..Len(game.Players) :
            (i <= Len(game'.Players) /\ game.Players[i].Role # ""
               /\ ~game.Players[i].Alive /\ game'.Players[i].Alive)
              => /\ game.Phase = PhaseNight
                 /\ game'.Phase = PhaseDay
                 /\ SavedFromKill(game, i)]_vars

\* C14: once a session is started no participant's role changes.
C14_RolesImmutable ==
  [][game.IsStarted
       => \A i \in 1..Len(game.Players) :
            i <= Len(game'.Players)
              => game'.Players[i].Role = game.Players[i].Role]_vars

\* C15: once a session is started the number of participants in its roster
\* never changes.
C15_RosterFixed ==
  [][game.IsStarted => Len(game'.Players) = Len(game.Players)]_vars

\* C16: the action log never holds two actions of the same kind from the same
\* participant.
C16_OneActionPerKind ==
  \A a, b \in 1..Len(game.Actions) :
    (game.Actions[a].PlayerID = game.Actions[b].PlayerID
       /\ game.Actions[a].Type = game.Actions[b].Type) => a = b

\* AddAction and the controller's ProcessAction both refuse the action and
\* leave the session as it was
Refused(action) ==
  /\ AddAction(game, action).err # NoErr
  /\ AddAction(game, action).game = game
  /\ mutex = "free"
       => \A o \in ControllerProcessAction(game, status, timer, action) :
            o.err # NoErr /\ o.game = game /\ o.status = status

\* the kill actions of the night that name a wolf-aligned participant
KillsOfWolves ==
  {action \in ActionsOf :
     /\ action.Type = "kill"
     /\ action.TargetID \in 1..Len(game.Players)
     /\ IsWolf(game.Players[action.TargetID].Role)}

\* C17: in the night phase of a started session every kill action that names
\* a werewolf or white wolf is refused and not appended, and when it comes
\* from a living wolf the error is the invalid-target error.
C17_WolfTargetRejected ==
  (game.IsStarted /\ game.Phase = PhaseNight)
    => \A action \in KillsOfWolves :
         /\ Refused(action)
         /\ isValidAction(game, action)
              => AddAction(game, action).err = ErrInvalidTarget

\* a night in which a living wolf's kill of another living wolf gets the
\* invalid-target error
C17_WolfAimsAtWolf ==
  /\ game.IsStarted /\ game.Phase = PhaseNight
  /\ \E action \in KillsOfWolves :
       /\ action.PlayerID # action.TargetID
       /\ game.Players[action.TargetID].Alive
       /\ isValidAction(game, action)
       /\ AddAction(game, action).err = ErrInvalidTarget

\* the night actions that name a dead participant of the roster
NightActionsOnTheDead ==
  {action \in ActionsOf :
     /\ action.Type \in {"kill", "check", "save", "poison", "protect"}
     /\ action.TargetID \in 1..Len(game.Players)
     /\ ~game.Players[action.TargetID].Alive}

\* C18: in the night phase of a started session every kill, check, save,
\* poison or protect that names a dead participant is refused and not
\* appended, and when the actor may act the error is the invalid-target error.
C18_DeadTargetRejected ==
  (game.IsStarted /\ game.Phase = PhaseNight)
    => \A action \in NightActionsOnTheDead :
         /\ Refused(action)
         /\ isValidAction(game, action)
              => AddAction(game, action).err = ErrInvalidTarget

\* a night in which a living participant's own kind of action names a
\* participant who held a role and is dead
C18_DeadIsTargeted ==
  /\ game.IsStarted /\ game.Phase = PhaseNight
  /\ \E action \in NightActionsOnTheDead :
       /\ game.Players[action.TargetID].Role # ""
       /\ isValidAction(game, action)
       /\ AddAction(game, action).err = ErrInvalidTarget

\* the kills, protections and votes whose target is the actor itself
SelfTargeted ==
  {action \in ActionsOf :
     /\ action.Type \in {"kill", "protect", "vote"}
     /\ action.PlayerID \in 1..Len(game.Players)
     /\ action.TargetID = action.PlayerID}

\* C19: in a started session AddAction refuses every kill, protect or vote
\* whose target is the actor itself, and does not append it.
C19_SelfTargetRejected ==
  game.IsStarted
    => \A action \in SelfTargeted :
         /\ AddAction(game, action).err # NoErr
         /\ AddAction(game, action).game = game

\* the actions whose actor is dead or is no participant of the roster
ActionsOfTheDead ==
  {action \in ActionsOf :
     \/ action.PlayerID \notin 1..Len(game.Players)
     \/ ~game.Players[action.PlayerID].Alive}

\* C20: in every phase an action whose actor is dead or matches no
\* participant of the roster is refused by AddAction and by the controller's
\* ProcessAction, and the log is left as it was.
C20_DeadActorRejected ==
  \A action \in ActionsOfTheDead : Refused(action)

\* a vote phase in which a dead participant who held a role votes for a
\* living one and gets the invalid-action error
C20_DeadVotes ==
  /\ game.IsStarted /\ game.Phase = PhaseVote
  /\ \E action \in ActionsOfTheDead :
       /\ action.Type = "vote"
       /\ action.PlayerID \in 1..Len(game.Players)
       /\ game.Players[action.PlayerID].Role # ""
       /\ action.TargetID \in 1..Len(game.Players)
       /\ game.Players[action.TargetID].Alive
       /\ AddAction(game, action).err = ErrInvalidActionMsg

\* the kinds a role may submit in a phase
KindsAllowed(phase, role) ==
  IF phase = PhaseNight
    THEN (IF role \in {"werewolf", "whitewolf"} THEN {"kill"} ELSE {})
           \cup (IF role = "seer" THEN {"check"} ELSE {})
           \cup (IF role = "witch" THEN {"save", "poison"} ELSE {})
           \cup (IF role = "guard" THEN {"protect"} ELSE {})
  ELSE IF phase = PhaseDay THEN {"discuss"}
  ELSE IF phase = PhaseVote THEN {"vote"}
  ELSE {}

\* C21: every action AddAction or the controller's ProcessAction accepts comes
\* from a participant of the roster and is of a kind its role may submit in
\* the current phase.
C21_KindFitsPhaseAndRole ==
  \A action \in ActionsOf :
    (\/ AddAction(game, action).err = NoErr
     \/ /\ mutex = "free"
        /\ \E o \in ControllerProcessAction(game, status, timer, action) :
             o.err \in {NoErr, Blocked})
      => /\ action.PlayerID \in 1..Len(game.Players)
         /\ action.Type
              \in KindsAllowed(game.Phase, game.Players[action.PlayerID].Role)

\* a night in which a living seer's check is accepted and its kill, its shoot
\* and its vote are refused as invalid actions
C21_SeerChecksOnly ==
  /\ game.IsStarted /\ game.Phase = PhaseNight
  /\ \E i \in 1..Len(game.Players) : \E t \in 1..Len(game.Players) :
       /\ game.Players[i].Role = "seer"
       /\ ~IsWolf(game.Players[t].Role)
       /\ AddAction(game, [Type |-> "check", PlayerID |-> i, TargetID |-> t]).err = NoErr
       /\ \A kind \in {"kill", "shoot", "vote"} :
            AddAction(game, [Type |-> kind, PlayerID |-> i, TargetID |-> t]).err
              = ErrInvalidActionMsg

\* the errors with which an action is refused before it is appended
ValidationErrors == {ErrGameNotStarted, ErrInvalidActionMsg, ErrInvalidTarget}

\* C22: when AddAction or the controller's ProcessAction refuses an action
\* with game-not-started, invalid-action or invalid-target, the log, roster,
\* phase, round and skills are as before the call, the declared status is
\* unchanged, the lock is released and the timer is the one it was.
C22_RejectionChangesNothing ==
  \A action \in ActionsOf :
    /\ AddAction(game, action).err \in ValidationErrors
         => AddAction(game, action).game = game
    /\ mutex = "free"
         => \A o \in ControllerProcessAction(game, status, timer, action) :
              o.err \in ValidationErrors
                => /\ o.game = game
                   /\ o.status = status
                   /\ o.timer = timer
                   /\ o.mutex = "free"
                   /\ o.sent = {}

\* a started session with an action in its log in which the controller refuses
\* one action as invalid and another for its target
C22_RefusedMidPhase ==
  /\ game.IsStarted /\ mutex = "free" /\ Len(game.Actions) > 0
  /\ \E action \in ActionsOf :
       \E o \in ControllerProcessAction(game, status, timer, action) :
         o.err = ErrInvalidActionMsg
  /\ \E action \in ActionsOf :
       /\ action.TargetID \in 1..Len(game.Players)
       /\ \E o \in ControllerProcessAction(game, status, timer, action) :
            o.err = ErrInvalidTarget

\* C23: on a started session every start request, to the GameState or to the
\* controller, returns an error and leaves roles, alive flags, phase, round
\* and log as they were.
C23_RestartRejected ==
  game.IsStarted
    => \A k \in 0..MaxShift :
         /\ GameStateStartGame(game, k).err # NoErr
         /\ GameStateStartGame(game, k).game = game
         /\ mutex = "free"
              => /\ ControllerStartGame(game, status, timer, k).err
                      \notin {NoErr, Blocked}
                 /\ ControllerStartGame(game, status, timer, k).game = game

\* the outcomes of the controller's operations entered in the current state:
\* StartGame, ProcessAction of every action, handlePhaseTimeout
ControllerOutcomes ==
  {ControllerStartGame(game, status, timer, k) : k \in 0..MaxShift}
    \cup UNION {ControllerProcessAction(game, status, timer, action)
                  : action \in ActionsOf}
    \cup endCurrentPhase(game, status, timer)

\* C24: while a game is in progress no message the controller broadcasts to
\* the whole room carries a participant's role.
C24_NoRoleInBroadcast ==
  (game.IsStarted /\ mutex = "free")
    => \A o \in ControllerOutcomes :
         \A m \in o.sent :
           m.to = ToRoom
             => /\ m.role = ""
                /\ \A i \in 1..Len(m.players) : m.players[i].Role = ""

\* C25: while a goroutine holds gc.mutex no other operation writes the
\* session's state.
C25_WritesUnderTheLock ==
  [][mutex = "held" => game' = game]_vars

\* C26: the controller hands no message to the WebSocketManager while it
\* holds gc.mutex.
C26_PublishAfterUnlock ==
  mutex = "free"
    => \A o \in ControllerOutcomes : \A m \in o.sent : ~m.locked

\* msgs holds a game_state broadcast that shows the session g
SnapshotOf(g, msgs) ==
  \E m \in msgs :
    /\ m.type = "game_state" /\ m.to = ToRoom
    /\ m.phase = g.Phase /\ m.round = g.Round /\ m.time_left = g.TimeLeft
    /\ m.players = g.Players /\ m.is_started = g.IsStarted

\* C28: every ProcessAction that accepts an action, and every phase transition
\* made by ProcessAction or by a timer expiry, broadcasts a game_state
\* snapshot of the session it leaves.
C28_SnapshotAfterEveryChange ==
  mutex = "free"
    => /\ \A action \in ActionsOf :
            \A o \in ControllerProcessAction(game, status, timer, action) :
              o.game # game => SnapshotOf(o.game, o.sent)
       /\ \A o \in endCurrentPhase(game, status, timer) :
            o.game.Phase # game.Phase => SnapshotOf(o.game, o.sent)

\* C29: when the controller starts a session of fewer than six participants,
\* the roster it leaves has exactly six seats, the joined participants keep
\* their seats and the seats after them are synthetic, every participant is
\* alive and holds a role, the phase is night, the round 1 and the session
\* is started.
C29_PaddedToSix ==
  (mutex = "free" /\ Len(game.Players) < MinRoster)
    => \A k \in 0..MaxShift :
         LET g == ControllerStartGame(game, status, timer, k).game
             n == Len(game.Players)
         IN /\ Len(g.Players) = MinRoster
            /\ \A i \in 1..n :
                 /\ g.Players[i].Type = game.Players[i].Type
                 /\ g.Players[i].IsLover = game.Players[i].IsLover
            /\ \A i \in (n + 1)..MinRoster : g.Players[i].Type = "ai"
            /\ \A i \in 1..MinRoster :
                 g.Players[i].Alive /\ g.Players[i].Role \in Roles
            /\ g.Phase = PhaseNight /\ g.Round = 1 /\ g.IsStarted

\* a session the controller started from two joined players: they hold the
\* first two seats and four synthetic participants follow
C29_TwoJoinedFourAdded ==
  /\ game.IsStarted /\ game.MinPlayers = MinRoster /\ Len(game.Players) = MinRoster
  /\ game.Players[1].Type = "human" /\ game.Players[2].Type = "human"
  /\ \A i \in 3..MinRoster : game.Players[i].Type = "ai"
  /\ game.Phase = PhaseNight /\ game.Round = 1 /\ game.Actions = <<>>

\* the number of seats of ps that hold role
RoleCount(ps, role) == Cardinality({i \in 1..Len(ps) : ps[i].Role = role})

\* the number of participants a mode gives a role other than villager
ModeCount(mode, role) ==
  CASE mode = "classic" ->
         (CASE role = "werewolf" -> 2
            [] role \in {"seer", "witch"} -> 1
            [] OTHER -> 0)
    [] mode = "standard" ->
         (CASE role = "werewolf" -> 2
            [] role \in {"seer", "witch", "hunter", "guard"} -> 1
            [] OTHER -> 0)
    [] mode = "extended" ->
         (CASE role \in {"werewolf", "whitewolf", "seer", "witch", "hunter",
                         "guard", "cupid"} -> 1
            [] OTHER -> 0)
    [] OTHER -> 0

\* C30: when the controller starts a session of a room as it was created, the
\* roles it deals are those of the room's configured mode: each role other
\* than villager on as many seats as the mode prescribes, and every other
\* seat a villager.
C30_RolesOfTheMode ==
  (mutex = "free" /\ game.MinPlayers = 1 /\ ~game.IsStarted)
    => \A k \in 0..MaxShift :
         LET ps == ControllerStartGame(game, status, timer, k).game.Players
         IN /\ \A role \in Roles \ {"villager"} :
                 RoleCount(ps, role) = ModeCount(game.Mode, role)
            /\ \A i \in 1..Len(ps) : ps[i].Role \in Roles

\* ------------------------------------------------------------ synthetic players
\* A room of four seats whose players, human or synthetic, have joined and
\* whose session GameState.StartGame has started; it is then played through
\* the controller's ProcessAction and through AddAction.
AISeats == 4

InitAI ==
  /\ \E mode \in RoomModes : \E k \in 0..MaxSkillShift :
       \E types \in [1..AISeats -> PlayerTypes] :
         game = GameStateStartGame(
                  [NewGameState(mode) EXCEPT
                     !.Players = [i \in 1..AISeats |-> NewPlayer(types[i])]],
                  k).game
  /\ status = ""
  /\ mutex = "free"
  /\ timer = "nil"
  /\ gmGame = NoGame

NextAI == CtlProcessAction \/ SubmitAction

SpecAI == InitAI /\ [][NextAI]_vars

\* the living synthetic participants of the started session
LivingAI ==
  {i \in 1..Len(game.Players) :
     game.IsStarted /\ game.Players[i].Type = "ai" /\ game.Players[i].Alive}

\* C31: every action DecideAction can return for a living synthetic
\* participant names no target or a living participant of the roster, and a
\* kill, check, protect, vote or poison never names the actor itself.
C31_AITargetsTheLiving ==
  \A i \in LivingAI :
    \A a \in DecideAction(game, i) :
      \/ a.TargetID = NoTarget
      \/ /\ a.TargetID \in 1..Len(game.Players)
         /\ game.Players[a.TargetID].Alive
         /\ a.Type \in {"kill", "check", "protect", "vote", "poison"}
              => a.TargetID # i

\* the caller is no participant holding role, or the target is no participant
Mismatch(role, callerID, targetID) ==
  \/ callerID \notin 1..Len(game.Players)
  \/ game.Players[callerID].Role # role
  \/ targetID \notin 1..Len(game.Players)

\* the result r is a failure if it has to be, and a failure changes nothing
FailsCleanly(r, mustFail) ==
  /\ mustFail => r.err # NoErr
  /\ r.err # NoErr => r.game = game

\* C32: each of UseSeerSkill, UseWitchSkill, UseHunterSkill and UseGuardSkill
\* fails when the caller does not hold the matching role or the target is
\* not in the roster, and a failed call leaves the session as it was.
C32_SkillNeedsItsRole ==
  \A p \in ActorIDs : \A d \in TargetIDs :
    /\ FailsCleanly(UseSeerSkill(game, p, d), Mismatch("seer", p, d))
    /\ FailsCleanly(UseHunterSkill(game, p, d), Mismatch("hunter", p, d))
    /\ FailsCleanly(UseGuardSkill(game, p, d), Mismatch("guard", p, d))
    /\ \A kind \in {"save", "poison", "shoot"} :
         FailsCleanly(UseWitchSkill(game, p, d, kind), Mismatch("witch", p, d))

\* a started session with a seer and a participant who is not the seer: the
\* seer's check of that participant succeeds, the other's check fails, and so
\* does the seer's check of an unknown target
C32_SeerAndAnother ==
  /\ game.IsStarted
  /\ \E p \in 1..Len(game.Players) : \E q \in 1..Len(game.Players) :
       /\ game.Players[p].Role = "seer" /\ game.Players[q].Role \notin {"seer", ""}
       /\ UseSeerSkill(game, p, q).err = NoErr
       /\ UseSeerSkill(game, q, p) = [game |-> game, err |-> ErrNotSeer]
       /\ UseSeerSkill(game, p, UnknownID) = [game |-> game, err |-> ErrNoSuchTarget]

\* the number of actions of a kind a participant has in the log
ActionsCast(i, kind) ==
  Cardinality({a \in 1..Len(game.Actions) :
                 game.Actions[a].PlayerID = i /\ game.Actions[a].Type = kind})

\* the completion conditions of the three phases, counted on the log
NightDone ==
  \A i \in 1..Len(game.Players) :
    game.Players[i].Alive
      => /\ game.Players[i].Role \in {"werewolf", "whitewolf"}
              => ActionsCast(i, "kill") >= 1
         /\ game.Players[i].Role = "seer" => ActionsCast(i, "check") >= 1
         /\ game.Players[i].Role = "guard" => ActionsCast(i, "protect") >= 1

VoteDone ==
  \A i \in 1..Len(game.Players) :
    game.Players[i].Alive => ActionsCast(i, "vote") = 1

DayDone == game.TimeLeft <= 0

\* C33: isPhaseComplete holds in night exactly when every living wolf has a
\* kill, every living seer a check and every living guard a protect in the
\* log; in vote exactly when every living participant has cast exactly one
\* vote; in day exactly when the time left has reached zero.
C33_CompletionConditions ==
  /\ game.Phase = PhaseNight => (isPhaseComplete(game) <=> NightDone)
  /\ game.Phase = PhaseVote => (isPhaseComplete(game) <=> VoteDone)
  /\ game.Phase = PhaseDay => (isPhaseComplete(game) <=> DayDone)

\* ------------------------------------------------------------ nights in full
\* A started classic session of NightSeats players whose night log holds up to
\* NightActions actions, resolved by TransitionPhase.
NightSeats == 3
NightActions == 4

InitNight ==
  /\ \E k \in 0..MaxSkillShift :
       game = GameStateStartGame(
                [NewGameState("classic") EXCEPT
                   !.Players = [i \in 1..NightSeats |-> NewPlayer("human")]], k).game
  /\ status = ""
  /\ mutex = "free"
  /\ timer = "nil"
  /\ gmGame = NoGame

NightAddAction ==
  \E action \in ActionsOf :
    LET r == AddAction(game, action)
    IN /\ Len(r.game.Actions) <= NightActions
       /\ game' = r.game
       /\ UNCHANGED <<status, mutex, timer, gmGame>>

NightTransitionPhase ==
  \E o \in TransitionPhase(game, status) :
    /\ o.game.Round <= MaxRound
    /\ game' = o.game
    /\ status' = o.status
    /\ UNCHANGED <<mutex, timer, gmGame>>

NextNight == NightAddAction \/ NightTransitionPhase

SpecNight == InitNight /\ [][NextNight]_vars

\* the positions of the log that hold an action of one of the kinds on t
Aimed(t, kinds) ==
  {a \in 1..Len(game.Actions) :
     game.Actions[a].Type \in kinds /\ game.Actions[a].TargetID = t}

Latest(S) == CHOOSE a \in S : \A b \in S : b <= a

\* the alive flag of t after the kills, then the saves and poisons, in log order
AfterNight(t) ==
  IF Aimed(t, {"save", "poison"}) # {}
    THEN game.Actions[Latest(Aimed(t, {"save", "poison"}))].Type = "save"
    ELSE IF Aimed(t, {"kill"}) # {} THEN FALSE ELSE game.Players[t].Alive

C35_EveryAIDecides ==
  game.IsStarted => \A l \in AILoop(game, 1) : ~l.aborted

\* C36: each accepted action submission adds exactly one entry to the action
\* log, through GameState.AddAction, through the controller's ProcessAction
\* and through GameManager.ProcessAction alike.
C36_OneEntryPerSubmission ==
  \A action \in ActionsOf :
    /\ AddAction(game, action).err = NoErr
         => AddAction(game, action).game.Actions = Append(game.Actions, action)
    /\ mutex = "free"
         => \A o \in ControllerProcessAction(game, status, timer, action) :
              o.err = NoErr => o.game.Actions = Append(game.Actions, action)
    /\ \A r \in GameManagerProcessAction(gmGame, action) :
         r.err = NoErr => r.game.Actions = Append(gmGame.Actions, action)

\* a second submission in a row is accepted by the controller
C36_SecondSubmissionAccepted ==
  /\ game.IsStarted
  /\ mutex = "free"
  /\ Len(game.Actions) = 1
  /\ \E action \in ActionsOf :
       \E o \in ControllerProcessAction(game, status, timer, action) :
         o.err = NoErr /\ Len(o.game.Actions) = 2

\* C37: no controller operation asks for the room's exclusive lock while its
\* own call chain holds it: StartGame, ProcessAction and handlePhaseTimeout
\* run to completion and release the lock, so that the lock is free whenever
\* no operation is under way.
C37_ControllerReleasesTheLock == mutex = "free"

\* C38: a call of the controller's ProcessAction that returns an error has
\* neither appended the action nor changed an alive flag, the phase or the
\* round; an action that was appended and applied is reported as success.
C38_ErrorMeansNoEffect ==
  mutex = "free"
    => \A action \in ActionsOf :
         \A o \in ControllerProcessAction(game, status, timer, action) :
           o.err \notin {NoErr, Blocked}
             => /\ o.game.Actions = game.Actions
                /\ SameAlive(game, o.game)
                /\ o.game.Phase = game.Phase
                /\ o.game.Round = game.Round

\* C39: while the phase is day, every action submitted through the
\* controller's ProcessAction is rejected and the log is unchanged: without a
\* target it fails the controller's target-existence check, with a target
\* (discuss included) it fails AddAction's target check.
C39_DayRejectsEverything ==
  (game.IsStarted /\ game.Phase = PhaseDay /\ mutex = "free")
    => \A action \in ActionsOf :
         \A o \in ControllerProcessAction(game, status, timer, action) :
           /\ o.err \in ValidationErrors
           /\ o.game.Actions = game.Actions
           /\ action.TargetID \notin 1..Len(game.Players) => o.err = ErrInvalidTarget
           /\ (action.Type = "discuss" /\ isValidAction(game, action))
                => o.err = ErrInvalidTarget

\* a started session by day with a living participant and the lock free
C39_DayWithTheLiving ==
  /\ game.IsStarted
  /\ game.Phase = PhaseDay
  /\ mutex = "free"
  /\ \E i \in 1..Len(game.Players) : game.Players[i].Alive

\* C40: TransitionPhase on a session that is not started, or whose phase is
\* not complete, returns an error and leaves phase, round, time budget, alive
\* flags and log unchanged; only a call on a started session with a complete
\* phase changes the phase, and it resets the time budget to 120.
C40_TransitionFrame ==
  \A o \in TransitionPhase(game, status) :
    IF game.IsStarted /\ isPhaseComplete(game)
      THEN o.game.Phase # game.Phase /\ o.game.TimeLeft = 120
      ELSE /\ o.err # NoErr
           /\ o.game.Phase = game.Phase
           /\ o.game.Round = game.Round
           /\ o.game.TimeLeft = game.TimeLeft
           /\ SameAlive(game, o.game)
           /\ o.game.Actions = game.Actions

\* the first night is over, somebody died in it, and the day that followed
\* is not complete
C40_RefusedAfterATransition ==
  /\ game.IsStarted
  /\ game.Phase = PhaseDay
  /\ game.Round = 1
  /\ ~isPhaseComplete(game)
  /\ \E i \in 1..Len(game.Players) : ~game.Players[i].Alive

====
